---- MODULE Spec2Model ----
(***************************************************************************)
(* Model of streamlit_app.py: concentrated-liquidity impermanent loss,     *)
(* static hedge sizing and the simulated price path with fee accrual.      *)
(*                                                                         *)
(* Numbers.  The script computes in IEEE doubles.  Here every real is an   *)
(* exact rational <<n, d>> in lowest terms with d > 0 (d = 0 stands for    *)
(* float('inf') / nan).  Prices range over squares of rationals, so that   *)
(* np.sqrt is computed exactly by Sqrt below; rounding error is not        *)
(* modelled.                                                               *)
(*                                                                         *)
(* Control.  A script run is a straight line: the sidebar widgets, the     *)
(* static IL / hedge computation, the simulation widgets, the check of     *)
(* the price bounds, the GBM path, compute_il_hedge_pnl_and_fees (one      *)
(* action per loop iteration) and the time grid.  pc is the position.      *)
(***************************************************************************)
EXTENDS Integers, Sequences, FiniteSets, TLC

(***************************************************************************)
(* Exact rational arithmetic                                               *)
(***************************************************************************)
Abs(n) == IF n < 0 THEN -n ELSE n

RECURSIVE GCD(_, _)
GCD(a, b) == IF b = 0 THEN a ELSE GCD(b, a % b)

\* the rational n/d in lowest terms, sign in the numerator; d = 0 is inf / nan
Q(n, d) ==
    IF d = 0 THEN <<(IF n = 0 THEN 0 ELSE IF n > 0 THEN 1 ELSE -1), 0>>
    ELSE LET g == GCD(Abs(n), Abs(d))
             s == IF d < 0 THEN -1 ELSE 1
         IN  <<(s * n) \div g, (s * d) \div g>>

Zero == Q(0, 1)
One  == Q(1, 1)
Inf  == Q(1, 0)

IsFinite(a) == a[2] # 0

QAdd(a, b) == Q(a[1] * b[2] + b[1] * a[2], a[2] * b[2])
QSub(a, b) == Q(a[1] * b[2] - b[1] * a[2], a[2] * b[2])
QMul(a, b) == Q(a[1] * b[1], a[2] * b[2])
QDiv(a, b) == Q(a[1] * b[2], a[2] * b[1])
QLt(a, b)  == a[1] * b[2] < b[1] * a[2]
QLe(a, b)  == a[1] * b[2] <= b[1] * a[2]
QGt(a, b)  == QLt(b, a)
QGe(a, b)  == QLe(b, a)

\* integer square root (floor); exact on perfect squares
ISqrt(n) == CHOOSE r \in 0..n : r * r <= n /\ (r + 1) * (r + 1) > n

\* np.sqrt on a rational whose numerator and denominator are squares
Sqrt(a) == Q(ISqrt(a[1]), ISqrt(a[2]))

(***************************************************************************)
(* Bounds and input grids                                                  *)
(***************************************************************************)
\* longest simulated path (the slider allows 10..500 steps)
MaxSteps == 3

\* square roots of the prices the model draws from
SqrtGrid == {Q(1, 2), Q(2, 3), Q(1, 1), Q(3, 2), Q(2, 1)}
PriceGrid == {QMul(s, s) : s \in SqrtGrid}

\* liquidity values entered in the sidebar
LGrid == {Q(1, 1), Q(1000, 1)}

\* fee slider positions, in percent
FeePercentGrid == {Q(0, 1), Q(3, 10)}

\* time horizons entered
TGrid == {Q(1, 1)}

\* min_value / offset of the sidebar number inputs
WidgetMin == Q(1, 10000)

(***************************************************************************)
(* Token holding functions                                                 *)
(***************************************************************************)
\* x_A(p) = L * (1/sqrt(p) - 1/sqrt(p_max))
calculate_xA(L_val, p, p_max_val) ==
    QMul(L_val, QSub(QDiv(One, Sqrt(p)), QDiv(One, Sqrt(p_max_val))))

\* x_B(p) = L * (sqrt(p) - sqrt(p_min))
calculate_xB(L_val, p, p_min_val) ==
    QMul(L_val, QSub(Sqrt(p), Sqrt(p_min_val)))

(***************************************************************************)
(* IL functions                                                            *)
(***************************************************************************)
calculate_delta_xA_sell(L_val, p0_val, p) ==
    QMul(L_val, QSub(QDiv(One, Sqrt(p0_val)), QDiv(One, Sqrt(p))))

calculate_delta_xB_sell(L_val, p0_val, p) ==
    QMul(L_val, QSub(Sqrt(p0_val), Sqrt(p)))

calculate_il_A_negated(p, p0_val, delta_xA_sell_val) ==
    QMul(QSub(Sqrt(QMul(p0_val, p)), p), delta_xA_sell_val)

\* IL_A(p) = (p - sqrt(p0 * p)) * Delta x_A_sell(p)
calculate_il_A(p, p0_val, delta_xA_sell_val) ==
    QMul(QSub(p, Sqrt(QMul(p0_val, p))), delta_xA_sell_val)

\* IL_B(p) = (1/p - 1/sqrt(p0 * p)) * Delta x_B_sell(p)
calculate_il_B(p, p0_val, delta_xB_sell_val) ==
    QMul(QSub(QDiv(One, p), QDiv(One, Sqrt(QMul(p0_val, p)))), delta_xB_sell_val)

IL_A_static(L_val, p0_val, p_val) ==
    calculate_il_A(p_val, p0_val, calculate_delta_xA_sell(L_val, p0_val, p_val))

IL_B_static(L_val, p0_val, p_val) ==
    calculate_il_B(p_val, p0_val, calculate_delta_xB_sell(L_val, p0_val, p_val))

(***************************************************************************)
(* Hedge sizes                                                             *)
(***************************************************************************)
HedgeSizeA_noSqrt(L_val, p0_val, p_max_val) ==
    IF QSub(p_max_val, p0_val) = Zero
    THEN Inf
    ELSE QMul(QDiv(QSub(p_max_val, QMul(p0_val, p_max_val)),
                   QSub(p_max_val, p0_val)),
              calculate_delta_xA_sell(L_val, p0_val, p_max_val))

\* xA_hedge, lines 91-95
HedgeSizeA(L_val, p0_val, p_max_val) ==
    IF QSub(p_max_val, p0_val) = Zero
    THEN Inf
    ELSE QMul(QDiv(QSub(p_max_val, Sqrt(QMul(p0_val, p_max_val))),
                   QSub(p_max_val, p0_val)),
              calculate_delta_xA_sell(L_val, p0_val, p_max_val))

\* xB_hedge, lines 97-101
HedgeSizeB(L_val, p0_val, p_min_val) ==
    IF QSub(QDiv(One, p_min_val), QDiv(One, p0_val)) = Zero
    THEN Inf
    ELSE QMul(QDiv(QSub(QDiv(One, p_min_val),
                        QDiv(One, Sqrt(QMul(p0_val, p_min_val)))),
                   QSub(QDiv(One, p_min_val), QDiv(One, p0_val))),
              calculate_delta_xB_sell(L_val, p0_val, p_min_val))

hedge_A_pnl_static(xA_hedge_val, p0_val, p_val) ==
    QMul(xA_hedge_val, QSub(p_val, p0_val))

hedge_B_pnl_static(xB_hedge_val, p0_val, p_val) ==
    QMul(xB_hedge_val, QSub(QDiv(One, p_val), QDiv(One, p0_val)))

(***************************************************************************)
(* One iteration of compute_il_hedge_pnl_and_fees, as functions            *)
(***************************************************************************)
\* lines 176-183: the impermanent loss at the current price
StepIL(L_val, p0_val, p) ==
    IF QGe(p, p0_val)
    THEN calculate_il_A(p, p0_val, calculate_delta_xA_sell(L_val, p0_val, p))
    ELSE calculate_il_B(p, p0_val, calculate_delta_xB_sell(L_val, p0_val, p))

StepHedge_sameSize(p, p0_val, xA_hedge_val, xB_hedge_val) ==
    IF QGe(p, p0_val)
    THEN QMul(xA_hedge_val, QSub(p, p0_val))
    ELSE QMul(xA_hedge_val, QSub(QDiv(One, p), QDiv(One, p0_val)))

\* lines 176-183: the PnL of the fixed hedge opened at p0
StepHedge(p, p0_val, xA_hedge_val, xB_hedge_val) ==
    IF QGe(p, p0_val)
    THEN QMul(xA_hedge_val, QSub(p, p0_val))
    ELSE QMul(xB_hedge_val, QSub(QDiv(One, p), QDiv(One, p0_val)))

\* lines 197-201: accumulated_fees_B after a step from prev_p to p
AccrueFeesB(acc, p, prev_p, cur_xB, prev_xB, fee) ==
    IF QGt(p, prev_p)
    THEN LET delta_xB_traded == QSub(cur_xB, prev_xB)
         IN  IF QGt(delta_xB_traded, Zero)
             THEN QAdd(acc, QMul(delta_xB_traded, fee))
             ELSE acc
    ELSE acc

AccrueFeesA_unguarded(acc, p, prev_p, cur_xA, prev_xA, fee) ==
    IF ~QGt(p, prev_p) /\ QLt(p, prev_p)
    THEN QAdd(acc, QMul(QSub(cur_xA, prev_xA), fee))
    ELSE acc

AccrueFeesA_orEqual(acc, p, prev_p, cur_xA, prev_xA, fee) ==
    IF ~QGt(p, prev_p) /\ QLe(p, prev_p)
    THEN LET delta_xA_traded == QSub(cur_xA, prev_xA)
         IN  IF QGt(delta_xA_traded, Zero)
             THEN QAdd(acc, QMul(delta_xA_traded, fee))
             ELSE acc
    ELSE acc

\* lines 203-207: accumulated_fees_A after a step from prev_p to p
AccrueFeesA(acc, p, prev_p, cur_xA, prev_xA, fee) ==
    IF ~QGt(p, prev_p) /\ QLt(p, prev_p)
    THEN LET delta_xA_traded == QSub(cur_xA, prev_xA)
         IN  IF QGt(delta_xA_traded, Zero)
             THEN QAdd(acc, QMul(delta_xA_traded, fee))
             ELSE acc
    ELSE acc

\* np.linspace(0, T_val, num)
Linspace(T_val, num) ==
    [k \in 1..num |->
        IF num = 1 THEN Zero
        ELSE QMul(Q(k - 1, 1), QDiv(T_val, Q(num - 1, 1)))]

(***************************************************************************)
(* State                                                                   *)
(***************************************************************************)
VARIABLES
    pc,                     \* position in the script
    p0, pmin, pmax, L,      \* sidebar inputs
    il_vals, hedge_vals,    \* static curves over p_grid
    xA_hedge, xB_hedge,     \* static hedge sizes
    steps, T, fee_rate,     \* simulation inputs
    p_path,                 \* simulated prices
    i,                      \* index of the next element of p_arr (0-based)
    il_list, hedge_list, net_list, fees_A_list, fees_B_list,
    accumulated_fees_A, accumulated_fees_B,
    prev_xA_for_fee_calc, prev_xB_for_fee_calc,
    il_path, hedge_path, net_pnl_path, fees_A_path, fees_B_path,
    time_grid

inputs  == <<p0, pmin, pmax, L>>
statics == <<il_vals, hedge_vals, xA_hedge, xB_hedge>>
simIn   == <<steps, T, fee_rate>>
locals  == <<i, il_list, hedge_list, net_list, fees_A_list, fees_B_list,
             accumulated_fees_A, accumulated_fees_B,
             prev_xA_for_fee_calc, prev_xB_for_fee_calc>>
outputs == <<il_path, hedge_path, net_pnl_path, fees_A_path, fees_B_path>>
vars    == <<pc, inputs, statics, simIn, p_path, locals, outputs, time_grid>>

\* the price grid of the static plot: the model's prices inside [pmin, pmax]
p_grid == {g \in PriceGrid : QLe(pmin, g) /\ QLe(g, pmax)}

\* lines 14-17: the sidebar number inputs and their min_value / max_value
Init ==
    /\ p0 \in {g \in PriceGrid : QGe(g, WidgetMin)}
    /\ pmin \in {g \in PriceGrid : QGe(g, WidgetMin) /\ QLe(g, QSub(p0, WidgetMin))}
    /\ pmax \in {g \in PriceGrid : QGe(g, QAdd(p0, WidgetMin))}
    /\ L \in {l \in LGrid : QGe(l, WidgetMin)}
    /\ pc = "static"
    /\ il_vals = <<>> /\ hedge_vals = <<>>
    /\ xA_hedge = Zero /\ xB_hedge = Zero
    /\ steps = 0 /\ T = Zero /\ fee_rate = Zero
    /\ p_path = <<>>
    /\ i = 0
    /\ il_list = <<>> /\ hedge_list = <<>> /\ net_list = <<>>
    /\ fees_A_list = <<>> /\ fees_B_list = <<>>
    /\ accumulated_fees_A = Zero /\ accumulated_fees_B = Zero
    /\ prev_xA_for_fee_calc = Zero /\ prev_xB_for_fee_calc = Zero
    /\ il_path = <<>> /\ hedge_path = <<>> /\ net_pnl_path = <<>>
    /\ fees_A_path = <<>> /\ fees_B_path = <<>>
    /\ time_grid = <<>>

\* lines 87-107: static IL curve, hedge sizes, static hedge curve
StaticView ==
    /\ pc = "static"
    /\ il_vals' = [g \in p_grid |->
                     IF QGe(g, p0) THEN IL_A_static(L, p0, g)
                                   ELSE IL_B_static(L, p0, g)]
    /\ xA_hedge' = HedgeSizeA(L, p0, pmax)
    /\ xB_hedge' = HedgeSizeB(L, p0, pmin)
    /\ hedge_vals' = [g \in p_grid |->
                        IF QGe(g, p0) THEN hedge_A_pnl_static(xA_hedge', p0, g)
                                      ELSE hedge_B_pnl_static(xB_hedge', p0, g)]
    /\ pc' = "sim_inputs"
    /\ UNCHANGED <<inputs, simIn, p_path, locals, outputs, time_grid>>

\* lines 138-149: the simulation widgets (the volatility only shapes the
\* distribution of the path, which SimulateGBM draws freely)
SimulationInputs ==
    /\ pc = "sim_inputs"
    /\ steps' \in 1..MaxSteps
    /\ T' \in TGrid
    /\ \E fee_rate_percent \in FeePercentGrid :
          fee_rate' = QDiv(fee_rate_percent, Q(100, 1))
    /\ pc' = "validate"
    /\ UNCHANGED <<inputs, statics, p_path, locals, outputs, time_grid>>

\* lines 151-154: the check of the price bounds; st.stop() ends the run
Validate ==
    /\ pc = "validate"
    /\ pc' = IF ~(QLt(pmin, p0) /\ QLt(p0, pmax)) THEN "stopped" ELSE "gbm"
    /\ UNCHANGED <<inputs, statics, simIn, p_path, locals, outputs, time_grid>>

\* lines 156-160: p_path = p0 * exp(cumsum(log_returns)) has `steps` elements,
\* each the previous one (p0 for the first) times exp of a normal draw, that
\* is any positive price
SimulateGBM ==
    /\ pc = "gbm"
    /\ p_path' \in [1..steps -> PriceGrid]
    /\ pc' = "call"
    /\ UNCHANGED <<inputs, statics, simIn, locals, outputs, time_grid>>

\* lines 164-172: entry of compute_il_hedge_pnl_and_fees
BeginCompute ==
    /\ pc = "call"
    /\ il_list' = <<>> /\ hedge_list' = <<>> /\ net_list' = <<>>
    /\ fees_A_list' = <<>> /\ fees_B_list' = <<>>
    /\ accumulated_fees_A' = Zero
    /\ accumulated_fees_B' = Zero
    /\ prev_xA_for_fee_calc' = calculate_xA(L, p0, pmax)
    /\ prev_xB_for_fee_calc' = calculate_xB(L, p0, pmin)
    /\ i' = 0
    /\ pc' = "loop"
    /\ UNCHANGED <<inputs, statics, simIn, p_path, outputs, time_grid>>

\* lines 174-218: one iteration of the loop over p_arr
LoopIteration ==
    /\ pc = "loop"
    /\ i < Len(p_path)
    /\ LET p  == p_path[i + 1]
           il == StepIL(L, p0, p)
           hedge == StepHedge(p, p0, xA_hedge, xB_hedge)
           current_xA_for_fee_calc == calculate_xA(L, p, pmax)
           current_xB_for_fee_calc == calculate_xB(L, p, pmin)
       IN  /\ il_list' = Append(il_list, il)
           /\ hedge_list' = Append(hedge_list, hedge)
           /\ net_list' = Append(net_list, QSub(hedge, il))
           /\ IF i > 0
              THEN /\ accumulated_fees_B' =
                        AccrueFeesB(accumulated_fees_B, p, p_path[i],
                                    current_xB_for_fee_calc,
                                    prev_xB_for_fee_calc, fee_rate)
                   /\ accumulated_fees_A' =
                        AccrueFeesA(accumulated_fees_A, p, p_path[i],
                                    current_xA_for_fee_calc,
                                    prev_xA_for_fee_calc, fee_rate)
                   /\ prev_xA_for_fee_calc' = current_xA_for_fee_calc
                   /\ prev_xB_for_fee_calc' = current_xB_for_fee_calc
              ELSE UNCHANGED <<accumulated_fees_A, accumulated_fees_B,
                               prev_xA_for_fee_calc, prev_xB_for_fee_calc>>
           /\ fees_A_list' = Append(fees_A_list, accumulated_fees_A')
           /\ fees_B_list' = Append(fees_B_list, accumulated_fees_B')
    /\ i' = i + 1
    /\ UNCHANGED <<pc, inputs, statics, simIn, p_path, outputs, time_grid>>

\* lines 220-224: the loop is over; the five arrays are returned and bound
ReturnArrays ==
    /\ pc = "loop"
    /\ i = Len(p_path)
    /\ il_path' = il_list
    /\ hedge_path' = hedge_list
    /\ net_pnl_path' = net_list
    /\ fees_A_path' = fees_A_list
    /\ fees_B_path' = fees_B_list
    /\ pc' = "plot"
    /\ UNCHANGED <<inputs, statics, simIn, p_path, locals, time_grid>>

\* line 231: the x axis of the three subplots
TimeGrid ==
    /\ pc = "plot"
    /\ time_grid' = Linspace(T, steps)
    /\ pc' = "done"
    /\ UNCHANGED <<inputs, statics, simIn, p_path, locals, outputs>>

Next ==
    \/ StaticView
    \/ SimulationInputs
    \/ Validate
    \/ SimulateGBM
    \/ BeginCompute
    \/ LoopIteration
    \/ ReturnArrays
    \/ TimeGrid

Spec == Init /\ [][Next]_vars

(***************************************************************************)
(* Properties                                                              *)
(***************************************************************************)
ValidConfig == QLt(Zero, pmin) /\ QLt(pmin, p0) /\ QLt(p0, pmax) /\ QLt(Zero, L)

\* the side of p0 a price lies on, as lines 176 and 180 decide it
OnSideA(p) == QGe(p, p0)
SideSwitch(k) == OnSideA(p_path[k]) # OnSideA(p_path[k - 1])

\* C1: at every fee-bearing step i >= 1 (p_arr[i-1] -> p_arr[i]; index k = i + 1
\* here) a price-up step adds feeRate * (xB(p_i) - xB(p_{i-1})) to the B total
\* when that difference is positive, a price-down step adds
\* feeRate * (xA(p_i) - xA(p_{i-1})) to the A total when positive: the holdings
\* compared are those of the two consecutive path prices.
C1_FeesFromConsecutiveHoldings ==
    \A k \in 2..Len(fees_B_list) :
        LET p  == p_path[k]
            q  == p_path[k - 1]
            dB == QSub(calculate_xB(L, p, pmin), calculate_xB(L, q, pmin))
            dA == QSub(calculate_xA(L, p, pmax), calculate_xA(L, q, pmax))
        IN  /\ QGt(p, q) =>
                 QSub(fees_B_list[k], fees_B_list[k - 1]) =
                     (IF QGt(dB, Zero) THEN QMul(fee_rate, dB) ELSE Zero)
            /\ QLt(p, q) =>
                 QSub(fees_A_list[k], fees_A_list[k - 1]) =
                     (IF QGt(dA, Zero) THEN QMul(fee_rate, dA) ELSE Zero)

\* C2: the recorded fee totals of token A and of token B never decrease from
\* one record to the next, and both are 0 in the first record.
C2_FeesMonotone ==
    /\ Len(fees_A_list) >= 1 => fees_A_list[1] = Zero /\ fees_B_list[1] = Zero
    /\ \A k \in 2..Len(fees_A_list) :
          /\ QLe(fees_A_list[k - 1], fees_A_list[k])
          /\ QLe(fees_B_list[k - 1], fees_B_list[k])
    /\ pc = "done" =>
          \A k \in 2..Len(fees_A_path) :
              /\ QLe(fees_A_path[k - 1], fees_A_path[k])
              /\ QLe(fees_B_path[k - 1], fees_B_path[k])

C2_Witness ==
    /\ pc = "done"
    /\ Len(fees_A_path) >= 3
    /\ fees_A_path[1] = Zero /\ fees_B_path[1] = Zero
    /\ QGt(fees_A_path[Len(fees_A_path)], Zero)
    /\ QGt(fees_B_path[Len(fees_B_path)], Zero)

\* C3: for a valid configuration the hedge sizes computed at p0 make the hedge
\* PnL at each range boundary equal the impermanent loss there:
\* xA_hedge * (pmax - p0) = IL_A(pmax) and xB_hedge * (1/pmin - 1/p0) = IL_B(pmin).
C3_HedgeOffsetsBoundaryIL ==
    (pc # "static" /\ ValidConfig) =>
        /\ QMul(xA_hedge, QSub(pmax, p0)) = IL_A_static(L, p0, pmax)
        /\ QMul(xB_hedge, QSub(QDiv(One, pmin), QDiv(One, p0))) =
               IL_B_static(L, p0, pmin)

C3_Witness ==
    /\ pc = "sim_inputs"
    /\ ValidConfig
    /\ QGt(xA_hedge, Zero) /\ QGt(xB_hedge, Zero)
    /\ QGt(IL_A_static(L, p0, pmax), Zero)
    /\ QGt(IL_B_static(L, p0, pmin), Zero)

\* C4: when the run is over every series (price, IL, hedge PnL, net PnL, fees A,
\* fees B, time) has exactly steps + 1 records.
C4_SeriesHaveStepsPlusOne ==
    pc = "done" =>
        /\ Len(p_path) = steps + 1
        /\ Len(il_path) = steps + 1
        /\ Len(hedge_path) = steps + 1
        /\ Len(net_pnl_path) = steps + 1
        /\ Len(fees_A_path) = steps + 1
        /\ Len(fees_B_path) = steps + 1
        /\ Len(time_grid) = steps + 1

\* C5 (as claimed): when two consecutive prices lie on opposite sides of p0 the
\* outgoing side's hedge PnL is settled and retained and the incoming side
\* starts from zero: the hedge PnL recorded after the switch is the PnL recorded
\* before it plus the incoming side's PnL.
C5_SwitchRetainsOutgoingPnL ==
    \A k \in 2..Len(hedge_list) :
        SideSwitch(k) =>
            hedge_list[k] =
                QAdd(hedge_list[k - 1],
                     IF OnSideA(p_path[k])
                     THEN QMul(xA_hedge, QSub(p_path[k], p0))
                     ELSE QMul(xB_hedge, QSub(QDiv(One, p_path[k]), QDiv(One, p0))))

\* C5 (amended): when two consecutive prices lie on opposite sides of p0 the
\* hedge PnL recorded is the incoming side's mark-to-market from p0 alone,
\* xA_hedge * (p - p0) or xB_hedge * (1/p - 1/p0); the PnL recorded for the
\* outgoing side is not carried over, and net PnL is that value minus the IL.
C5_SwitchMarksIncomingSideOnly ==
    \A k \in 2..Len(hedge_list) :
        SideSwitch(k) =>
            /\ hedge_list[k] =
                   (IF OnSideA(p_path[k])
                    THEN QMul(xA_hedge, QSub(p_path[k], p0))
                    ELSE QMul(xB_hedge, QSub(QDiv(One, p_path[k]), QDiv(One, p0))))
            /\ net_list[k] = QSub(hedge_list[k], il_list[k])

C5_Witness ==
    \E k \in 2..Len(hedge_list) :
        /\ SideSwitch(k)
        /\ ~OnSideA(p_path[k])
        /\ QGt(hedge_list[k - 1], Zero)
        /\ QGt(hedge_list[k], Zero)
        /\ xA_hedge # xB_hedge

\* C6: the check of the configuration has run before any core computation
\* (static IL curve, hedge sizes, static hedge curve) is executed.
CoreHasRun == pc # "static"
CheckHasRun == pc \in {"stopped", "gbm", "call", "loop", "plot", "done"}
C6_CheckBeforeCore == CoreHasRun => CheckHasRun

\* C7: the holdings the simulator keeps for the fee computation are clamped:
\* never negative, xA = 0 and xB = xB(pmax) at a price >= pmax, xB = 0 and
\* xA = xA(pmin) at a price <= pmin.
C7_HoldingsClamped ==
    (pc = "loop" /\ i >= 2) =>
        LET p == p_path[i]
        IN  /\ QGe(prev_xA_for_fee_calc, Zero)
            /\ QGe(prev_xB_for_fee_calc, Zero)
            /\ QGe(p, pmax) =>
                  /\ prev_xA_for_fee_calc = Zero
                  /\ prev_xB_for_fee_calc = calculate_xB(L, pmax, pmin)
            /\ QLe(p, pmin) =>
                  /\ prev_xB_for_fee_calc = Zero
                  /\ prev_xA_for_fee_calc = calculate_xA(L, pmin, pmax)

\* C8: IL is zero at p0; IL_A does not decrease as the price rises above p0 and
\* IL_B does not decrease as the price falls below p0 (checked for the inputs of
\* every run, once the static view is computed); so every IL recorded on a path
\* is >= 0.
C8_ILZeroAtP0AndMonotone ==
    /\ pc = "sim_inputs" =>
          /\ IL_A_static(L, p0, p0) = Zero
          /\ IL_B_static(L, p0, p0) = Zero
          /\ \A p \in PriceGrid : \A q \in PriceGrid :
                /\ (QLe(p0, p) /\ QLe(p, q)) =>
                       QLe(IL_A_static(L, p0, p), IL_A_static(L, p0, q))
                /\ (QLe(q, p) /\ QLe(p, p0)) =>
                       QLe(IL_B_static(L, p0, p), IL_B_static(L, p0, q))
          /\ \A g \in p_grid : QGe(il_vals[g], Zero)
    /\ \A k \in 1..Len(il_list) : QGe(il_list[k], Zero)

C8_Witness ==
    /\ pc = "done"
    /\ \E k \in 1..Len(il_path) : QGt(p_path[k], p0) /\ QGt(il_path[k], Zero)
    /\ \E k \in 1..Len(il_path) : QLt(p_path[k], p0) /\ QGt(il_path[k], Zero)
    /\ \E k \in 1..Len(il_path) : p_path[k] = p0 /\ il_path[k] = Zero

\* C9: the first element of the price path is p0, and the first record shows
\* IL = 0, hedge PnL = 0 and net PnL = 0.
C9_PathStartsAtP0 ==
    /\ pc \in {"call", "loop", "plot", "done"} => p_path[1] = p0
    /\ Len(il_list) >= 1 =>
          il_list[1] = Zero /\ hedge_list[1] = Zero /\ net_list[1] = Zero

\* C10: a price-up step leaves the fee total of A unchanged, a price-down step
\* leaves the fee total of B unchanged, a step to the same price leaves both
\* unchanged, and the first record changes neither (both stay 0).
C10_OneFeeTotalPerStep ==
    /\ Len(fees_A_list) >= 1 => fees_A_list[1] = Zero /\ fees_B_list[1] = Zero
    /\ \A k \in 2..Len(fees_A_list) :
          LET p == p_path[k]
              q == p_path[k - 1]
          IN  /\ QGt(p, q) => fees_A_list[k] = fees_A_list[k - 1]
              /\ QLt(p, q) => fees_B_list[k] = fees_B_list[k - 1]
              /\ p = q => /\ fees_A_list[k] = fees_A_list[k - 1]
                          /\ fees_B_list[k] = fees_B_list[k - 1]

C10_Witness ==
    /\ Len(fees_A_list) = 3
    /\ QGt(fees_A_list[2], Zero)
    /\ QGt(p_path[3], p_path[2])
    /\ QGt(fees_B_list[3], fees_B_list[2])
    /\ fees_A_list[3] = fees_A_list[2]

====
